---- MODULE Spec2Model ----
(***************************************************************************)
(* A model of gas_sensor_plot.py (reader, make_text, get_plot_params,      *)
(* plot_data) and of the driver remote_gas_sensor.py.                      *)
(*                                                                         *)
(* Python strings that the code searches with `in` are tuples of           *)
(* characters, so that the substring tests are computed, not assumed.      *)
(* Family names kept in counted_list / plot_names are atoms ("PM", ...).   *)
(***************************************************************************)
EXTENDS Integers, Sequences, FiniteSets, TLC

VARIABLES
    entry,          \* the function the environment invoked
    pc,             \* control location
    raised,         \* exception that escaped the entry function ("" = none)
    log,            \* exceptions handed to logging.error, in order
    cols,           \* list(frame.columns), or the cols argument
    rows,           \* the frame's rows: tuples of cells, one per column
    header,         \* make_text: the header line written to the text file
    txt,            \* make_text: the row lines written to the text file
    ri,             \* make_text: index of the next row of frame.iterrows()
    gi,             \* get_plot_params: index of the next column of the scan
    plot_count,     \* get_plot_params local
    counted_list,   \* get_plot_params local
    plot_num,       \* get_plot_params local
    plot_params,    \* get_plot_params local: <<>> while unbound, else <<pairs>>
    number_of_plots,\* plot_data local
    plot_names,     \* plot_data local
    plot_nums,      \* plot_data local
    ci,             \* plot_data: index of the next column of the drawing loop
    fig,            \* plot_data: axes, twin axes, drawn series, h_i, c_i
    png,            \* TRUE once plt.savefig has written the image
    exc             \* the exception an except clause is about to handle

vars == <<entry, pc, raised, log, cols, rows, header, txt, ri, gi, plot_count,
          counted_list, plot_num, plot_params, number_of_plots, plot_names,
          plot_nums, ci, fig, png, exc>>

-----------------------------------------------------------------------------
(* Bounds of the model *)

MaxCols == 3        \* longest column list of the general tables
MaxRows == 2        \* most rows of a frame handed to make_text
MaxSensors == 5     \* most Temp/RH columns of the many-sensor tables

-----------------------------------------------------------------------------
(* Strings *)

\* A column name that is not a str (e.g. an int label of a DataFrame).
NotAString == <<"<int>">>

IsStr(val) == val # NotAString

\* Python `kw in val` for two str values: substring test.
In(kw, val) ==
    \E i \in 0..(Len(val) - Len(kw)) : SubSeq(val, i + 1, i + Len(kw)) = kw

\* Python truth value of a str literal used as a condition.
Truthy(lit) == Len(lit) > 0

\* Python `x in list`.
InList(x, list) == \E i \in 1..Len(list) : list[i] = x

\* Python list.index(x), zero-based (the caller checks InList first:
\* a missing x is a ValueError).
IndexOf(list, x) ==
    (CHOOSE i \in 1..Len(list) :
        list[i] = x /\ \A j \in 1..(i - 1) : list[j] # x) - 1

\* The keyword literals of the code.
K_PM == <<"P", "M">>
K_ST == <<"S", "T">>
K_Temp == <<"T", "e", "m", "p">>
K_RH == <<"R", "H">>
K_Current == <<"C", "u", "r", "r", "e", "n", "t">>
K_Voltage == <<"V", "o", "l", "t", "a", "g", "e">>
K_Power == <<"P", "o", "w", "e", "r">>
K_Pressure == <<"P", "r", "e", "s", "s", "u", "r", "e">>
K_Gas == <<"G", "a", "s">>
K_CO2 == <<"C", "O", "2">>
K_Time == <<"T", "i", "m", "e">>

-----------------------------------------------------------------------------
(* get_plot_params: one iteration of the column scan *)

\* Mutant of Sight: the `not in counted_list` guard is lost.
SightAlways(st, fam) ==
    [counted_list |-> Append(st.counted_list, fam),
     plot_count   |-> st.plot_count + 1,
     plot_num     |-> Append(st.plot_num, st.plot_count + 1)]

\* if F not in counted_list: append F; plot_count += 1; append plot_count
Sight(st, fam) ==
    IF InList(fam, st.counted_list) THEN st
    ELSE [counted_list |-> Append(st.counted_list, fam),
          plot_count   |-> st.plot_count + 1,
          plot_num     |-> Append(st.plot_num, st.plot_count + 1)]

\* The body of a paired block: the first family takes a new panel, the
\* second is appended with the current plot_count.
SightPair(st, a, b) ==
    LET s1 == Sight(st, a)
    IN  IF InList(b, s1.counted_list) THEN s1
        ELSE [s1 EXCEPT !.counted_list = Append(@, b),
                        !.plot_num = Append(@, s1.plot_count)]

\* Mutant of TempOrRH: both keywords are tested against the name.
TempOrRHTested(val) == In(K_Temp, val) \/ In(K_RH, val)

\* `'Temp' or 'RH' in val` parses as `'Temp' or ('RH' in val)`.
TempOrRH(val) == Truthy(K_Temp) \/ In(K_RH, val)

\* `'Gas' or 'CO2' in val` parses as `'Gas' or ('CO2' in val)`.
GasOrCO2(val) == Truthy(K_Gas) \/ In(K_CO2, val)

\* The loop body for one str column name.
ScanStep(st, val) ==
    LET s1 == IF In(K_PM, val) THEN Sight(st, "PM") ELSE st
        s2 == IF TempOrRH(val) THEN SightPair(s1, "Temp", "RH") ELSE s1
        s3 == IF In(K_Current, val) THEN Sight(s2, "Current") ELSE s2
        s4 == IF In(K_Voltage, val) THEN Sight(s3, "Voltage") ELSE s3
        s5 == IF In(K_Power, val) THEN Sight(s4, "Power") ELSE s4
        s6 == IF In(K_Pressure, val) THEN Sight(s5, "Pressure") ELSE s5
        s7 == IF GasOrCO2(val) THEN SightPair(s6, "Gas", "CO2") ELSE s6
    IN  s7

\* The scan of a whole list of str names, from the initial locals.
RECURSIVE ScanFrom(_, _, _)
ScanFrom(st, list, k) ==
    IF k > Len(list) THEN st ELSE ScanFrom(ScanStep(st, list[k]), list, k + 1)

ScanStart == [counted_list |-> <<>>, plot_count |-> 0, plot_num |-> <<>>]

Classify(list) == ScanFrom(ScanStart, list, 1)

\* zip(counted_list, plot_num): stops at the shorter list.
Zip(a, b) ==
    [i \in 1..(IF Len(a) < Len(b) THEN Len(a) ELSE Len(b)) |-> <<a[i], b[i]>>]

-----------------------------------------------------------------------------
(* make_text *)

\* Cells of a frame: a number, or a str (the Time stamp, or text).
Num(n) == [str |-> FALSE, n |-> n]
TextCell == [str |-> TRUE, n |-> 0]

\* '{:<25}'.format(val) for a str, '{:<20.2f}'.format(val) for a number:
\* a field width and the value in hundredths.
Fmt2f(n) == [w |-> 20, text |-> FALSE, cents |-> 100 * n]
FmtCell(val) ==
    IF val.str THEN [w |-> 25, text |-> TRUE, cents |-> 0] ELSE Fmt2f(val.n)

\* Header field of one column name.
FmtHead(val) == [w |-> IF val = K_Time THEN 25 ELSE 20, s |-> val]

HeaderLine(columns) ==
    [k \in 1..Len(columns) |-> FmtHead(columns[k])]
        \o <<[w |-> 20, s |-> <<"Total Current">>],
             [w |-> 20, s |-> <<"Total Power">>]>>

\* Mutant of Accumulate: the name test is lost, every column is added.
AccumulateAny(kw, ind, tot, val) == tot + val.n

\* `if kw in ind: tot += val` for a numeric val.
Accumulate(kw, ind, tot, val) == IF In(kw, ind) THEN tot + val.n ELSE tot

\* int += str is a TypeError.
AccumulateRaises(kw, ind, val) == In(kw, ind) /\ val.str

\* The totals a row starts with.
RowStart ==
    [current_tot |-> 0, power_tot |-> 0, str_vals |-> <<>>, err |-> ""]

\* One (val, ind) pair of zip(row.values, row.index).
CellStep(acc, val, ind) ==
    IF ~IsStr(ind) THEN [acc EXCEPT !.err = "TypeError"]
    ELSE IF AccumulateRaises(K_Current, ind, val)
    THEN [acc EXCEPT !.err = "TypeError"]
    ELSE LET c == Accumulate(K_Current, ind, acc.current_tot, val) IN
         IF AccumulateRaises(K_Power, ind, val)
         THEN [acc EXCEPT !.current_tot = c, !.err = "TypeError"]
         ELSE [acc EXCEPT !.current_tot = c,
                          !.power_tot = Accumulate(K_Power, ind, @, val),
                          !.str_vals = Append(@, FmtCell(val))]

RECURSIVE RowLoop(_, _, _, _)
RowLoop(acc, row, index, k) ==
    IF k > Len(row) \/ acc.err # "" THEN acc
    ELSE RowLoop(CellStep(acc, row[k], index[k]), row, index, k + 1)

\* The line written for one row: the formatted cells and the two totals.
RowLine(acc) ==
    [str_vals |-> acc.str_vals,
     current  |-> Fmt2f(acc.current_tot),
     power    |-> Fmt2f(acc.power_tot)]

-----------------------------------------------------------------------------
(* plot_data: the figure and one iteration of the drawing loop *)

hot_colors == <<"r", "#F97306", "m", "#FFFF14">>
cold_colors == <<"b", "g", "c">>

\* A fresh Axes: no limits set, no label.
NewAxes == [ylim |-> <<>>, ylabel |-> ""]

NoFigure ==
    [ax |-> <<>>, twins |-> <<>>, drawn |-> <<>>, h_i |-> 0, c_i |-> 0,
     err |-> ""]

\* plt.subplots(n): n primary axes; h_i = c_i = 0.
Subplots(n) == [NoFigure EXCEPT !.ax = [k \in 1..n |-> NewAxes]]

Raise(ps, e) == [ps EXCEPT !.err = e]

\* ax[ind]: with one subplot ax is a single Axes, not an array.
SubscriptErr(ps, ind) ==
    IF Len(ps.ax) = 1 THEN "TypeError"
    ELSE IF ind >= Len(ps.ax) THEN "IndexError"
    ELSE ""

\* Mutant of PanelOf: the one-based panel number is used as it is.
PanelOfOneBased(fam) == plot_nums[IndexOf(plot_names, fam) + 1]

\* plot_nums[plot_names.index(fam)] - 1
PanelOf(fam) == plot_nums[IndexOf(plot_names, fam) + 1] - 1

\* ax[ind].plot(...); set_ylim; set_ylabel on a primary axis.
DrawPrimary(ps, val, fam, ind, c, ylim, ylabel) ==
    [ps EXCEPT
        !.drawn = Append(@, [val |-> val, fam |-> fam, panel |-> ind,
                             twin |-> 0, c |-> c]),
        !.ax[ind + 1] = [ylim |-> ylim, ylabel |-> ylabel]]

\* ax[host].twinx()
NewTwin(ps, host) ==
    [ps EXCEPT !.twins = Append(@, [host |-> host, ylim |-> <<>>,
                                    ylabel |-> ""])]

\* plot, set_ylim, set_ylabel on the twin axis created last.
DrawTwin(ps, val, fam, c, ylim, ylabel) ==
    LET t == Len(ps.twins) IN
    [ps EXCEPT
        !.drawn = Append(@, [val |-> val, fam |-> fam,
                             panel |-> ps.twins[t].host, twin |-> t,
                             c |-> c]),
        !.twins[t] = [host |-> @.host, ylim |-> ylim, ylabel |-> ylabel]]

\* frame['Time'].iloc[0] of a frame without rows is an IndexError.
XLim(ps) == IF Len(rows) = 0 THEN Raise(ps, "IndexError") ELSE ps

\* Mutant of PMBlock: the self-test columns are drawn too.
PMBlockAll(ps, val) ==
    IF ~InList("PM", plot_names) THEN Raise(ps, "ValueError")
    ELSE LET pm_ind == PanelOf("PM") IN
         IF SubscriptErr(ps, pm_ind) # "" THEN Raise(ps, SubscriptErr(ps, pm_ind))
         ELSE DrawPrimary(ps, val, "PM", pm_ind, "auto",
                          ps.ax[pm_ind + 1].ylim, "PM Conc (ug/m3)")

\* if 'PM' in val: a name with 'ST' is skipped; no set_ylim.
PMBlock(ps, val) ==
    IF In(K_ST, val) THEN ps
    ELSE IF ~InList("PM", plot_names) THEN Raise(ps, "ValueError")
    ELSE LET pm_ind == PanelOf("PM") IN
         IF SubscriptErr(ps, pm_ind) # "" THEN Raise(ps, SubscriptErr(ps, pm_ind))
         ELSE DrawPrimary(ps, val, "PM", pm_ind, "auto",
                          ps.ax[pm_ind + 1].ylim, "PM Conc (ug/m3)")

\* The Current, Power, Voltage and Pressure blocks.
PlainBlock(ps, val, fam, ylim, ylabel) ==
    IF ~InList(fam, plot_names) THEN Raise(ps, "ValueError")
    ELSE LET ind == PanelOf(fam) IN
         IF SubscriptErr(ps, ind) # "" THEN Raise(ps, SubscriptErr(ps, ind))
         ELSE DrawPrimary(ps, val, fam, ind, "auto", ylim, ylabel)

\* A Temp series on the primary axis ax[ind], coloured hot_colors[h_i].
TempOnAx(ps, val, ind, ylabel) ==
    IF SubscriptErr(ps, ind) # "" THEN Raise(ps, SubscriptErr(ps, ind))
    ELSE IF ps.h_i >= Len(hot_colors) THEN Raise(ps, "IndexError")
    ELSE XLim([DrawPrimary(ps, val, "Temp", ind, hot_colors[ps.h_i + 1],
                           <<-20, 80>>, ylabel)
                  EXCEPT !.h_i = @ + 1])

\* An RH series on the primary axis ax[ind], coloured cold_colors[c_i].
RHOnAx(ps, val, ind, ylabel) ==
    IF SubscriptErr(ps, ind) # "" THEN Raise(ps, SubscriptErr(ps, ind))
    ELSE IF ps.c_i >= Len(cold_colors) THEN Raise(ps, "IndexError")
    ELSE XLim([DrawPrimary(ps, val, "RH", ind, cold_colors[ps.c_i + 1],
                           <<0, 100>>, ylabel)
                  EXCEPT !.c_i = @ + 1])

\* A Temp series on a new twin of ax[host].
TempOnTwin(ps, val, host) ==
    IF SubscriptErr(ps, host) # "" THEN Raise(ps, SubscriptErr(ps, host))
    ELSE IF ps.h_i >= Len(hot_colors) THEN Raise(NewTwin(ps, host), "IndexError")
    ELSE [DrawTwin(NewTwin(ps, host), val, "Temp", hot_colors[ps.h_i + 1],
                   <<-20, 80>>, "Temp (C)")
             EXCEPT !.h_i = @ + 1]

\* An RH series on a new twin of ax[host].
RHOnTwin(ps, val, host) ==
    IF SubscriptErr(ps, host) # "" THEN Raise(ps, SubscriptErr(ps, host))
    ELSE IF ~InList("RH", plot_names) THEN Raise(NewTwin(ps, host), "ValueError")
    ELSE IF ps.c_i >= Len(cold_colors) THEN Raise(NewTwin(ps, host), "IndexError")
    ELSE [DrawTwin(NewTwin(ps, host), val, "RH", cold_colors[ps.c_i + 1],
                   <<0, 100>>, "RH (%)")
             EXCEPT !.c_i = @ + 1]

\* `'Temp' and 'RH' in plot_names` parses as `'Temp' and ('RH' in plot_names)`.
TempAndRH == Truthy(K_Temp) /\ InList("RH", plot_names)

\* Both names in plot_names: the family with the larger index owns the
\* primary axis, the RH branch on a tie.
TempRHPaired(ps, val) ==
    IF ~InList("Temp", plot_names) \/ ~InList("RH", plot_names)
    THEN Raise(ps, "ValueError")
    ELSE LET temp_ind == PanelOf("Temp")
             rh_ind == PanelOf("RH")
         IN  IF temp_ind > rh_ind
             THEN LET s1 == IF In(K_Temp, val)
                            THEN TempOnAx(ps, val, temp_ind, "Temp (C))")
                            ELSE ps
                  IN  IF s1.err = "" /\ In(K_RH, val)
                      THEN RHOnTwin(s1, val, temp_ind) ELSE s1
             ELSE LET s1 == IF In(K_RH, val)
                            THEN RHOnAx(ps, val, rh_ind, "RH (%))")
                            ELSE ps
                  IN  IF s1.err = "" /\ In(K_Temp, val)
                      THEN TempOnTwin(s1, val, rh_ind) ELSE s1

\* if 'Temp' or 'RH' in val: ...
TempRHBlock(ps, val) ==
    IF TempAndRH THEN TempRHPaired(ps, val)
    ELSE IF InList(K_Temp, cols) /\ ~InList("RH", plot_names)
    THEN IF ~In(K_Temp, val) THEN ps
         ELSE IF ~InList("Temp", plot_names) THEN Raise(ps, "ValueError")
         ELSE TempOnAx(ps, val, PanelOf("Temp"), "Temp (C))")
    ELSE IF InList(K_RH, cols) /\ ~InList("Temp", plot_names)
    THEN IF ~In(K_RH, val) THEN ps
         ELSE IF ~InList("RH", plot_names) THEN Raise(ps, "ValueError")
         ELSE RHOnAx(ps, val, PanelOf("RH"), "RH (%))")
    ELSE ps

\* A Gas or CO2 series on the primary axis ax[ind].
GasOnAx(ps, val, fam, ind, c, ylabel) ==
    IF SubscriptErr(ps, ind) # "" THEN Raise(ps, SubscriptErr(ps, ind))
    ELSE XLim(DrawPrimary(ps, val, fam, ind, c, <<0>>, ylabel))

\* A Gas or CO2 series on a new twin of ax[host].
GasOnTwin(ps, val, fam, host, c, ylabel) ==
    IF SubscriptErr(ps, host) # "" THEN Raise(ps, SubscriptErr(ps, host))
    ELSE DrawTwin(NewTwin(ps, host), val, fam, c, <<0>>, ylabel)

\* `'Gas' and 'CO2' in plot_names` parses as `'Gas' and ('CO2' in plot_names)`.
GasAndCO2 == Truthy(K_Gas) /\ InList("CO2", plot_names)

GasCO2Paired(ps, val) ==
    IF ~InList("Gas", plot_names) \/ ~InList("CO2", plot_names)
    THEN Raise(ps, "ValueError")
    ELSE LET gas_ind == PanelOf("Gas")
             co2_ind == PanelOf("CO2")
         IN  IF gas_ind > co2_ind
             THEN LET s1 == IF In(K_Gas, val)
                            THEN GasOnAx(ps, val, "Gas", gas_ind, "r",
                                         "BME Gas (ohms)")
                            ELSE ps
                  IN  IF s1.err = "" /\ In(K_CO2, val)
                      THEN GasOnTwin(s1, val, "CO2", gas_ind, "b",
                                     "CO2 CONC (PPM)")
                      ELSE s1
             ELSE LET s1 == IF In(K_CO2, val)
                            THEN GasOnAx(ps, val, "CO2", co2_ind, "b",
                                         "CO2 CONC (PPM)")
                            ELSE ps
                  IN  IF s1.err = "" /\ In(K_Gas, val)
                      THEN GasOnTwin(s1, val, "Gas", co2_ind, "r",
                                     "BME Gas (ohms)")
                      ELSE s1

\* if 'Gas' or 'CO2' in val: ...
GasCO2Block(ps, val) ==
    IF GasAndCO2 THEN GasCO2Paired(ps, val)
    ELSE IF InList("Gas", plot_names) /\ ~InList("CO2", plot_names)
    THEN IF In(K_Gas, val)
         THEN GasOnAx(ps, val, "Gas", PanelOf("Gas"), "r", "BME Gas (ohms)")
         ELSE ps
    ELSE IF InList("CO2", plot_names) /\ ~InList("Gas", plot_names)
    THEN IF In(K_CO2, val)
         THEN GasOnAx(ps, val, "CO2", PanelOf("CO2"), "b", "CO2 CONC (PPM)")
         ELSE ps
    ELSE ps

\* The loop body for one column; an exception skips the rest of it.
\* On a name that is not a str the first test, 'PM' in val, raises.
DrawStep(ps, val) ==
    IF ~IsStr(val) THEN Raise(ps, "TypeError")
    ELSE
    LET s1 == IF In(K_PM, val) THEN PMBlock(ps, val) ELSE ps
        s2 == IF s1.err = "" /\ In(K_Current, val)
              THEN PlainBlock(s1, val, "Current", <<0, 500>>, "Current (mA)")
              ELSE s1
        s3 == IF s2.err = "" /\ In(K_Power, val)
              THEN PlainBlock(s2, val, "Power", <<0, 15>>, "Power (W)")
              ELSE s2
        s4 == IF s3.err = "" /\ In(K_Voltage, val)
              THEN PlainBlock(s3, val, "Voltage", <<0, 16>>, "Voltage (V)")
              ELSE s3
        s5 == IF s4.err = "" /\ TempOrRH(val) THEN TempRHBlock(s4, val) ELSE s4
        s6 == IF s5.err = "" /\ In(K_Pressure, val)
              THEN PlainBlock(s5, val, "Pressure", <<0, 1000>>, "Pressure (hPa)")
              ELSE s5
        s7 == IF s6.err = "" /\ GasOrCO2(val) THEN GasCO2Block(s6, val) ELSE s6
    IN  s7

-----------------------------------------------------------------------------
(* Inputs *)

C_Time == K_Time
C_PM25 == <<"P", "M", "2", ".", "5">>
C_PM25_ST == <<"P", "M", "2", ".", "5", "_", "S", "T">>
C_PM_ST_Current ==
    <<"P", "M", "_", "S", "T", "_", "C", "u", "r", "r", "e", "n", "t">>
C_Temp1 == <<"T", "e", "m", "p", "1">>
C_RH1 == <<"R", "H", "1">>
C_Current_A == <<"C", "u", "r", "r", "e", "n", "t", "_", "A">>
C_Current_B == <<"C", "u", "r", "r", "e", "n", "t", "_", "B">>
C_Current_ID == <<"C", "u", "r", "r", "e", "n", "t", "_", "I", "D">>
C_Voltage == K_Voltage
C_Power_A == <<"P", "o", "w", "e", "r", "_", "A">>
C_Pressure == K_Pressure
C_Gas == K_Gas
C_CO2 == K_CO2

\* Column labels of a DataFrame handed to plot_data; a label need not be a
\* str.
PlotNames ==
    {C_Time, C_PM25, C_PM25_ST, C_Temp1, C_RH1, C_Current_A, C_Voltage,
     C_Power_A, C_Pressure, C_Gas, C_CO2, NotAString}

\* Elements of a list handed to get_plot_params: also a name with the
\* keywords of two families.
ParamNames == PlotNames \cup {C_PM_ST_Current}

\* Header fields of the CSV files the driver reads: always str.
CsvNames == {C_Time, C_Current_A, C_Current_B, C_Power_A, C_Current_ID}

\* Columns that read_csv leaves as text (dtype object).
TextColumns == {C_Time, C_Current_ID}

\* Values of the numeric cells.
CellValues == {1, 2}

Lists(S, n) == UNION {[1..k -> S] : k \in 0..n}

Distinct(list) ==
    \A i \in 1..Len(list) : \A j \in 1..Len(list) : list[i] = list[j] => i = j

\* Column lists of a DataFrame: labels are unique.
Tables(S, n) == {t \in Lists(S, n) : Distinct(t)}

Digit == <<"1", "2", "3", "4", "5", "6", "7", "8", "9">>

\* Tables of one unit with many Temp/RH sensors: Time, then sensor columns
\* Temp<k> or RH<k>.
SensorTables ==
    UNION {{<<C_Time>> \o [k \in 1..n |-> pick[k] \o <<Digit[k]>>] :
               pick \in [1..n -> {K_Temp, K_RH}]} : n \in 1..MaxSensors}

CellsOf(name) ==
    IF name \in TextColumns THEN {TextCell} ELSE {Num(v) : v \in CellValues}

\* The rows a table with these columns can hold.
RowsOf(columns) ==
    {r \in [1..Len(columns) -> {TextCell} \cup {Num(v) : v \in CellValues}] :
        \A k \in 1..Len(columns) : r[k] \in CellsOf(columns[k])}

\* One row of a frame whose cell values do not matter to the caller.
SomeRow(columns) ==
    [k \in 1..Len(columns) |->
        IF columns[k] \in TextColumns THEN TextCell ELSE Num(1)]

Unbound == [bound |-> FALSE, pairs |-> <<>>]

Locals ==
    /\ raised = "" /\ log = <<>> /\ exc = ""
    /\ header = <<>> /\ txt = <<>> /\ ri = 0
    /\ gi = 0 /\ plot_count = 0 /\ counted_list = <<>> /\ plot_num = <<>>
    /\ plot_params = Unbound
    /\ number_of_plots = 0 /\ plot_names = <<>> /\ plot_nums = <<>>
    /\ ci = 0 /\ fig = NoFigure /\ png = FALSE

\* remote_gas_sensor.py on a CSV file with a header line.
InitDriver ==
    /\ entry = "driver" /\ pc = "reader"
    /\ cols \in Tables(CsvNames, MaxCols) \ {<<>>}
    /\ rows \in Lists(RowsOf(cols), MaxRows)
    /\ Locals

\* plot_data(frame, ...) called on a DataFrame.
InitPlot ==
    /\ entry = "plot_data" /\ pc = "pd_call"
    /\ cols \in Tables(PlotNames, MaxCols) \cup SensorTables
    /\ rows \in {<<>>, <<SomeRow(cols)>>}
    /\ Locals

\* make_text(file_name, save_directory, frame) called on a frame.
InitText ==
    /\ entry = "make_text" /\ pc = "mt_header"
    /\ cols \in Tables(CsvNames, MaxCols) \ {<<>>}
    /\ rows \in Lists(RowsOf(cols), MaxRows)
    /\ Locals

\* get_plot_params(cols) called on a list.
InitParams ==
    /\ entry = "get_plot_params" /\ pc = "gpp_enter"
    /\ cols \in Lists(ParamNames, MaxCols)
    /\ rows = <<>>
    /\ Locals

-----------------------------------------------------------------------------
(* Actions *)

\* An exception no try block encloses leaves the entry function.
Propagate(e) == pc' = "done" /\ raised' = e

\* pa_frame = pa.reader(file_path)
Reader ==
    /\ pc = "reader"
    /\ pc' = "mt_header"
    /\ UNCHANGED <<entry, raised, log, cols, rows, header, txt, ri, gi,
                   plot_count, counted_list, plot_num, plot_params,
                   number_of_plots, plot_names, plot_nums, ci, fig, png, exc>>

\* make_text: open the file, write the header line.
MT_Header ==
    /\ pc = "mt_header"
    /\ header' = HeaderLine(cols)
    /\ txt' = <<>>
    /\ ri' = 1
    /\ pc' = "mt_rows"
    /\ UNCHANGED <<entry, raised, log, cols, rows, gi, plot_count,
                   counted_list, plot_num, plot_params, number_of_plots,
                   plot_names, plot_nums, ci, fig, png, exc>>

\* make_text: one iteration of `for index, row in frame.iterrows()`.
MT_Row ==
    /\ pc = "mt_rows" /\ ri <= Len(rows)
    /\ LET acc == RowLoop(RowStart, rows[ri], cols, 1) IN
       IF acc.err # ""
       THEN /\ exc' = acc.err /\ pc' = "mt_except"
            /\ UNCHANGED <<txt, ri>>
       ELSE /\ txt' = Append(txt, RowLine(acc))
            /\ ri' = ri + 1
            /\ UNCHANGED <<pc, exc>>
    /\ UNCHANGED <<entry, raised, log, cols, rows, header, gi, plot_count,
                   counted_list, plot_num, plot_params, number_of_plots,
                   plot_names, plot_nums, ci, fig, png>>

\* Where control goes when make_text returns.
AfterMakeText == IF entry = "driver" THEN "pd_call" ELSE "done"

\* make_text: the rows are exhausted, the file is closed, the call returns.
MT_Close ==
    /\ pc = "mt_rows" /\ ri > Len(rows)
    /\ pc' = AfterMakeText
    /\ UNCHANGED <<entry, raised, log, cols, rows, header, txt, ri, gi,
                   plot_count, counted_list, plot_num, plot_params,
                   number_of_plots, plot_names, plot_nums, ci, fig, png, exc>>

\* make_text: except Exception: log it, return.
MT_Except ==
    /\ pc = "mt_except"
    /\ log' = Append(log, exc)
    /\ exc' = ""
    /\ pc' = AfterMakeText
    /\ UNCHANGED <<entry, raised, cols, rows, header, txt, ri, gi,
                   plot_count, counted_list, plot_num, plot_params,
                   number_of_plots, plot_names, plot_nums, ci, fig, png>>

\* plot_data: the call get_plot_params(list(frame.columns)).
PD_Call ==
    /\ pc = "pd_call"
    /\ pc' = "gpp_enter"
    /\ UNCHANGED <<entry, raised, log, cols, rows, header, txt, ri, gi,
                   plot_count, counted_list, plot_num, plot_params,
                   number_of_plots, plot_names, plot_nums, ci, fig, png, exc>>

\* get_plot_params: the locals before the try block.
GPP_Enter ==
    /\ pc = "gpp_enter"
    /\ plot_count' = ScanStart.plot_count
    /\ counted_list' = ScanStart.counted_list
    /\ plot_num' = ScanStart.plot_num
    /\ plot_params' = Unbound
    /\ gi' = 1
    /\ pc' = "gpp_loop"
    /\ UNCHANGED <<entry, raised, log, cols, rows, header, txt, ri,
                   number_of_plots, plot_names, plot_nums, ci, fig, png, exc>>

\* get_plot_params: one iteration of `for val in cols`.
GPP_Scan ==
    /\ pc = "gpp_loop" /\ gi <= Len(cols)
    /\ IF ~IsStr(cols[gi])
       THEN /\ exc' = "TypeError" /\ pc' = "gpp_except"
            /\ UNCHANGED <<gi, plot_count, counted_list, plot_num>>
       ELSE LET st == ScanStep([counted_list |-> counted_list,
                                plot_count |-> plot_count,
                                plot_num |-> plot_num], cols[gi])
            IN  /\ plot_count' = st.plot_count
                /\ counted_list' = st.counted_list
                /\ plot_num' = st.plot_num
                /\ gi' = gi + 1
                /\ UNCHANGED <<pc, exc>>
    /\ UNCHANGED <<entry, raised, log, cols, rows, header, txt, ri,
                   plot_params, number_of_plots, plot_names, plot_nums, ci,
                   fig, png>>

\* Where control goes when get_plot_params returns.
AfterParams == IF entry = "get_plot_params" THEN "done" ELSE "pd_setup"

\* get_plot_params: the scan is over; plot_params = zip(...); return.
GPP_Finish ==
    /\ pc = "gpp_loop" /\ gi > Len(cols)
    /\ plot_params' = [bound |-> TRUE, pairs |-> Zip(counted_list, plot_num)]
    /\ pc' = AfterParams
    /\ UNCHANGED <<entry, raised, log, cols, rows, header, txt, ri, gi,
                   plot_count, counted_list, plot_num, number_of_plots,
                   plot_names, plot_nums, ci, fig, png, exc>>

\* get_plot_params: except Exception: log it; then the return statement
\* reads plot_params, which is bound only by the last statement of the try
\* block.  The caller plot_data makes the call outside its own try block.
GPP_Except ==
    /\ pc = "gpp_except"
    /\ log' = Append(log, exc)
    /\ exc' = ""
    /\ IF plot_params.bound
       THEN pc' = AfterParams /\ UNCHANGED raised
       ELSE Propagate("UnboundLocalError")
    /\ UNCHANGED <<entry, cols, rows, header, txt, ri, gi, plot_count,
                   counted_list, plot_num, plot_params, number_of_plots,
                   plot_names, plot_nums, ci, fig, png>>

\* plot_data: from the return of get_plot_params to the try block:
\* zip(*plot_parameters), plt.subplots, frame.sort_values('Time').
\* None of these is inside a try block.
PD_Setup ==
    /\ pc = "pd_setup"
    /\ number_of_plots' = plot_count
    /\ IF Len(plot_params.pairs) = 0
       THEN /\ Propagate("ValueError")
            /\ UNCHANGED <<plot_names, plot_nums, fig, ci>>
       ELSE /\ plot_names' = [k \in 1..Len(plot_params.pairs) |->
                                 plot_params.pairs[k][1]]
            /\ plot_nums' = [k \in 1..Len(plot_params.pairs) |->
                                 plot_params.pairs[k][2]]
            /\ IF plot_count < 1
               THEN /\ Propagate("ValueError")
                    /\ UNCHANGED <<fig, ci>>
               ELSE /\ fig' = Subplots(plot_count)
                    /\ IF ~InList(K_Time, cols)
                       THEN Propagate("KeyError") /\ UNCHANGED ci
                       ELSE pc' = "pd_loop" /\ ci' = 1 /\ UNCHANGED raised
    /\ UNCHANGED <<entry, log, cols, rows, header, txt, ri, gi, plot_count,
                   counted_list, plot_num, plot_params, png, exc>>

\* plot_data: one iteration of `for val in list(frame.columns)`.
PD_Column ==
    /\ pc = "pd_loop" /\ ci <= Len(cols)
    /\ LET ps == DrawStep(fig, cols[ci]) IN
       /\ fig' = [ps EXCEPT !.err = ""]
       /\ IF ps.err # ""
          THEN exc' = ps.err /\ pc' = "pd_except" /\ UNCHANGED ci
          ELSE ci' = ci + 1 /\ UNCHANGED <<pc, exc>>
    /\ UNCHANGED <<entry, raised, log, cols, rows, header, txt, ri, gi,
                   plot_count, counted_list, plot_num, plot_params,
                   number_of_plots, plot_names, plot_nums, png>>

\* plot_data: after the loop: ax[0].set_xlim(...), the title, savefig.
PD_Finish ==
    /\ pc = "pd_loop" /\ ci > Len(cols)
    /\ LET ps == IF SubscriptErr(fig, 0) # ""
                 THEN Raise(fig, SubscriptErr(fig, 0))
                 ELSE XLim(fig)
       IN  IF ps.err # ""
           THEN exc' = ps.err /\ pc' = "pd_except" /\ UNCHANGED png
           ELSE png' = TRUE /\ pc' = "done" /\ UNCHANGED exc
    /\ UNCHANGED <<entry, raised, log, cols, rows, header, txt, ri, gi,
                   plot_count, counted_list, plot_num, plot_params,
                   number_of_plots, plot_names, plot_nums, ci, fig>>

\* plot_data: except Exception: log it, return.
PD_Except ==
    /\ pc = "pd_except"
    /\ log' = Append(log, exc)
    /\ exc' = ""
    /\ pc' = "done"
    /\ UNCHANGED <<entry, raised, cols, rows, header, txt, ri, gi,
                   plot_count, counted_list, plot_num, plot_params,
                   number_of_plots, plot_names, plot_nums, ci, fig, png>>

-----------------------------------------------------------------------------
(* Specifications *)

ParamsNext == GPP_Enter \/ GPP_Scan \/ GPP_Finish \/ GPP_Except

PlotNext ==
    \/ PD_Call \/ GPP_Enter \/ GPP_Scan \/ GPP_Finish \/ GPP_Except
    \/ PD_Setup \/ PD_Column \/ PD_Finish \/ PD_Except

TextNext == MT_Header \/ MT_Row \/ MT_Close \/ MT_Except

Init == InitDriver \/ InitText \/ InitPlot \/ InitParams

Next ==
    \/ Reader \/ MT_Header \/ MT_Row \/ MT_Close \/ MT_Except
    \/ PD_Call \/ GPP_Enter \/ GPP_Scan \/ GPP_Finish \/ GPP_Except
    \/ PD_Setup \/ PD_Column \/ PD_Finish \/ PD_Except

\* The driver, and direct calls of make_text, plot_data and get_plot_params.
Spec == Init /\ [][Next]_vars

\* Direct calls of plot_data.
SpecPlot == InitPlot /\ [][PlotNext]_vars

\* Direct calls of get_plot_params.
SpecParams == InitParams /\ [][ParamsNext]_vars

\* Direct calls of make_text.
SpecText == InitText /\ [][TextNext]_vars

-----------------------------------------------------------------------------
(* Vocabulary of the properties *)

Families ==
    {"PM", "Temp", "RH", "Current", "Voltage", "Power", "Pressure", "Gas",
     "CO2"}

Unpaired == {"PM", "Current", "Voltage", "Power", "Pressure"}

Keyword ==
    [PM |-> K_PM, Temp |-> K_Temp, RH |-> K_RH, Current |-> K_Current,
     Voltage |-> K_Voltage, Power |-> K_Power, Pressure |-> K_Pressure,
     Gas |-> K_Gas, CO2 |-> K_CO2]

AllStr(list) == \A k \in 1..Len(list) : IsStr(list[k])

\* Column k of the list names family f.
Names(list, k, f) == IsStr(list[k]) /\ In(Keyword[f], list[k])

Present(f, list) == \E k \in 1..Len(list) : Names(list, k, f)

\* The first column naming f.
FirstCol(f, list) ==
    CHOOSE k \in 1..Len(list) :
        Names(list, k, f) /\ \A j \in 1..(k - 1) : ~Names(list, j, f)

\* The places of family f in a sequence of <<family, index>> pairs.
PlacesOf(f, pairs) == {k \in 1..Len(pairs) : pairs[k][1] = f}

\* The panel index paired with f (f occurs among the pairs).
PanelIn(f, pairs) == pairs[CHOOSE k \in PlacesOf(f, pairs) : TRUE][2]

\* get_plot_params, called directly, has returned to its caller.
ParamsReturned ==
    entry = "get_plot_params" /\ pc = "done" /\ raised = ""

\* C1: for a column list with Time, every family named by some column occurs
\* exactly once among the returned pairs, Temp and RH share an index when
\* both are named, and so do Gas and CO2.
C1_OneIndexPerFamily ==
    (ParamsReturned /\ InList(C_Time, cols)) =>
        /\ \A f \in Families :
              Present(f, cols) =>
                  Cardinality(PlacesOf(f, plot_params.pairs)) = 1
        /\ (Present("Temp", cols) /\ Present("RH", cols)) =>
              PanelIn("Temp", plot_params.pairs)
                  = PanelIn("RH", plot_params.pairs)
        /\ (Present("Gas", cols) /\ Present("CO2", cols)) =>
              PanelIn("Gas", plot_params.pairs)
                  = PanelIn("CO2", plot_params.pairs)

\* C1 witness: a returned scan of a list with Time, a Temp and an RH column.
C1_Witness ==
    /\ ParamsReturned
    /\ InList(C_Time, cols)
    /\ Present("Temp", cols) /\ Present("RH", cols)
    /\ PanelIn("Temp", plot_params.pairs) = PanelIn("RH", plot_params.pairs)

\* The panels the named families need: one per unpaired family, one per
\* pair with at least one member named.
PanelsNeeded(list) ==
    Cardinality({f \in Unpaired : Present(f, list)})
        + (IF Present("Temp", list) \/ Present("RH", list) THEN 1 ELSE 0)
        + (IF Present("Gas", list) \/ Present("CO2", list) THEN 1 ELSE 0)

\* C2: the returned count counts only the families named by some column,
\* and a family (or pair) that no column names gets no panel index.
C2_CountsOnlyPresent ==
    (ParamsReturned /\ InList(C_Time, cols)) =>
        /\ plot_count = PanelsNeeded(cols)
        /\ \A f \in Unpaired :
              ~Present(f, cols) => PlacesOf(f, plot_params.pairs) = {}
        /\ (~Present("Temp", cols) /\ ~Present("RH", cols)) =>
              PlacesOf("Temp", plot_params.pairs)
                  \cup PlacesOf("RH", plot_params.pairs) = {}
        /\ (~Present("Gas", cols) /\ ~Present("CO2", cols)) =>
              PlacesOf("Gas", plot_params.pairs)
                  \cup PlacesOf("CO2", plot_params.pairs) = {}

\* Column k names some family.
Matches(list, k) == \E f \in Families : Names(list, k, f)

\* C3: the first column that names a family gives (one of) its families
\* panel 1, and unpaired families are indexed in the order of their first
\* columns.
C3_FirstSightingOrder ==
    (ParamsReturned /\ InList(C_Time, cols)) =>
        /\ \A k \in 1..Len(cols) :
              (Matches(cols, k) /\ \A j \in 1..(k - 1) : ~Matches(cols, j))
                  => \E f \in Families :
                        /\ Names(cols, k, f)
                        /\ PlacesOf(f, plot_params.pairs) # {}
                        /\ PanelIn(f, plot_params.pairs) = 1
        /\ \A f, g \in Unpaired :
              (/\ Present(f, cols) /\ Present(g, cols)
               /\ FirstCol(f, cols) < FirstCol(g, cols))
                  => /\ PlacesOf(f, plot_params.pairs) # {}
                     /\ PlacesOf(g, plot_params.pairs) # {}
                     /\ PanelIn(f, plot_params.pairs)
                            < PanelIn(g, plot_params.pairs)

\* C4: a direct call of get_plot_params always returns normally, with the
\* results built so far, whatever happens during the scan.
C4_NeverRaises ==
    (entry = "get_plot_params" /\ pc = "done") =>
        /\ raised = ""
        /\ plot_params.bound

RECURSIVE SumCells(_, _)
\* The sum of a row's cells over a set of column positions.
SumCells(S, row) ==
    IF S = {} THEN 0
    ELSE LET j == CHOOSE j \in S : TRUE
         IN  row[j].n + SumCells(S \ {j}, row)

ColumnsWith(kw) == {j \in 1..Len(cols) : In(kw, cols[j])}

\* C5: line k of the text file is row k, and its Total Current (Total
\* Power) is the sum of that row's cells over exactly the columns whose
\* name contains Current (Power), rendered with two decimals.
C5_RowTotals ==
    /\ Len(txt) <= Len(rows)
    /\ \A k \in 1..Len(txt) :
          /\ txt[k].current = Fmt2f(SumCells(ColumnsWith(K_Current), rows[k]))
          /\ txt[k].power = Fmt2f(SumCells(ColumnsWith(K_Power), rows[k]))

\* C5 witness: two rows written for a frame with two Current columns, a
\* Power column, and different totals in the two rows.
C5_Witness ==
    /\ entry = "make_text" /\ pc = "done"
    /\ Len(txt) = 2
    /\ Cardinality(ColumnsWith(K_Current)) = 2
    /\ ColumnsWith(K_Power) # {}
    /\ txt[1].current.cents > txt[2].current.cents
    /\ txt[2].current.cents > txt[2].power.cents

\* Family a is named before family b, and both are named.
NamedBefore(a, b) ==
    /\ Present(a, cols) /\ Present(b, cols)
    /\ FirstCol(a, cols) < FirstCol(b, cols)

\* Every series of a is on a primary axis, every series of b on a twin.
PrimaryThenTwin(a, b) ==
    \A k \in 1..Len(fig.drawn) :
        /\ fig.drawn[k].fam = a => fig.drawn[k].twin = 0
        /\ fig.drawn[k].fam = b => fig.drawn[k].twin # 0

PlotSaved == entry = "plot_data" /\ pc = "done" /\ png

\* C6: in the image of a table that names both families of a pair, the
\* family named first is on the panel's primary axis and the other on a
\* twin axis.
C6_FirstFamilyOnPrimary ==
    PlotSaved =>
        /\ NamedBefore("Temp", "RH") => PrimaryThenTwin("Temp", "RH")
        /\ NamedBefore("RH", "Temp") => PrimaryThenTwin("RH", "Temp")
        /\ NamedBefore("Gas", "CO2") => PrimaryThenTwin("Gas", "CO2")
        /\ NamedBefore("CO2", "Gas") => PrimaryThenTwin("CO2", "Gas")

\* A PM column with the self-test marker.
STColumn(val) == IsStr(val) /\ In(K_PM, val) /\ In(K_ST, val)

\* The name contains the keyword of no family but PM.
OnlyPM(val) == \A f \in Families \ {"PM"} : ~In(Keyword[f], val)

Remove(list, p) == SubSeq(list, 1, p - 1) \o SubSeq(list, p + 1, Len(list))

\* cols is a table with another PM column to which a self-test column was
\* added at position p.
AddedAt(p) ==
    /\ STColumn(cols[p])
    /\ \E q \in 1..Len(cols) : q # p /\ Names(cols, q, "PM")

\* The scan of the table without column p gave the count the scan of cols
\* gave.
SameCount(p) == Classify(Remove(cols, p)).plot_count = plot_count

\* ... and the same panel index to every family.
SameIndices(p) ==
    LET before == Classify(Remove(cols, p))
        was == Zip(before.counted_list, before.plot_num)
    IN  \A f \in Families :
            /\ (PlacesOf(f, was) = {}) = (PlacesOf(f, plot_params.pairs) = {})
            /\ PlacesOf(f, was) # {} =>
                  PanelIn(f, was) = PanelIn(f, plot_params.pairs)

Scanned == plot_params.bound /\ AllStr(cols)

\* C7 as stated: a PM column with ST in its name is never drawn, it counts
\* toward PM presence, and adding one to a table with another PM column
\* changes neither the count nor any family's index.
C7_STColumnAsStated ==
    /\ \A k \in 1..Len(fig.drawn) : ~STColumn(fig.drawn[k].val)
    /\ Scanned =>
          \A p \in 1..Len(cols) :
              /\ STColumn(cols[p]) => InList("PM", counted_list)
              /\ AddedAt(p) => SameCount(p) /\ SameIndices(p)

\* C7 amended: a PM column with ST in its name is never drawn as a PM
\* series, and not at all when it names no other family; it counts toward
\* PM presence; adding one that names no other family to a table with
\* another PM column leaves the count unchanged, and leaves every family's
\* index unchanged when a PM column precedes it.
C7_STColumnAmended ==
    /\ \A k \in 1..Len(fig.drawn) :
          STColumn(fig.drawn[k].val) =>
              /\ fig.drawn[k].fam # "PM"
              /\ ~OnlyPM(fig.drawn[k].val)
    /\ Scanned =>
          \A p \in 1..Len(cols) :
              /\ STColumn(cols[p]) => InList("PM", counted_list)
              /\ (AddedAt(p) /\ OnlyPM(cols[p])) =>
                    /\ SameCount(p)
                    /\ (\E q \in 1..(p - 1) : Names(cols, q, "PM"))
                          => SameIndices(p)

\* C7 witness: the image of Time, PM2.5, PM2.5_ST is saved with the PM2.5
\* series drawn.
C7_Witness ==
    /\ PlotSaved
    /\ cols = <<C_Time, C_PM25, C_PM25_ST>>
    /\ \E k \in 1..Len(fig.drawn) : fig.drawn[k].val = C_PM25

\* C8: the driver reaches its normal end: no exception leaves make_text or
\* plot_data.
C8_StageFailuresContained ==
    (entry = "driver" /\ pc = "done") => raised = ""

\* The number of columns before column k whose name contains kw.
Rank(kw, k) == Cardinality({j \in 1..(k - 1) : In(kw, cols[j])})

\* Column k is drawn as a series of fam in the colour c.
DrawnIn(k, fam, c) ==
    \E d \in 1..Len(fig.drawn) :
        /\ fig.drawn[d].val = cols[k]
        /\ fig.drawn[d].fam = fam
        /\ fig.drawn[d].c = c

\* C9: rendering a frame with rows succeeds however many Temp and RH
\* columns it has, the k-th Temp column in hot colour k mod 4 and the k-th
\* RH column in cold colour k mod 3.
C9_PaletteCycles ==
    (entry = "plot_data" /\ pc = "done" /\ raised = "" /\ Len(rows) > 0) =>
        /\ png
        /\ \A k \in 1..Len(cols) :
              /\ In(K_Temp, cols[k]) =>
                    DrawnIn(k, "Temp",
                            hot_colors[(Rank(K_Temp, k) % Len(hot_colors)) + 1])
              /\ In(K_RH, cols[k]) =>
                    DrawnIn(k, "RH",
                            cold_colors[(Rank(K_RH, k) % Len(cold_colors)) + 1])

\* The table of section 4.3: y-ranges (<<>>: automatic, <<0>>: lower bound
\* 0 only) and labels.
TableYLim ==
    [PM |-> <<>>, Current |-> <<0, 500>>, Power |-> <<0, 15>>,
     Voltage |-> <<0, 16>>, Temp |-> <<-20, 80>>, RH |-> <<0, 100>>,
     Pressure |-> <<0, 1000>>, Gas |-> <<0>>, CO2 |-> <<0>>]

TableLabel ==
    [PM |-> "PM Conc (ug/m3)", Current |-> "Current (mA)",
     Power |-> "Power (W)", Voltage |-> "Voltage (V)", Temp |-> "Temp (C)",
     RH |-> "RH (%)", Pressure |-> "Pressure (hPa)",
     Gas |-> "BME Gas (ohms)", CO2 |-> "CO2 CONC (PPM)"]

\* The axis a series was drawn on.
AxisOf(d) == IF d.twin = 0 THEN fig.ax[d.panel + 1] ELSE fig.twins[d.twin]

\* C10: in a saved image every axis with a series of a family carries the
\* family's label and, PM apart, the family's y-range.
C10_AxisRangeAndLabel ==
    PlotSaved =>
        \A k \in 1..Len(fig.drawn) :
            LET d == fig.drawn[k] IN
            /\ AxisOf(d).ylabel = TableLabel[d.fam]
            /\ d.fam # "PM" => AxisOf(d).ylim = TableYLim[d.fam]

\* The panel numbers handed out by the scan.
PanelsUsed == {plot_num[k] : k \in 1..Len(plot_num)}

Walking == pc = "pd_loop" /\ ci <= Len(cols)

\* C12: while plot_data walks the columns, every family the column at
\* hand names is in plot_names and its zero-based panel index is within
\* 0..number_of_plots-1, the number of axes; so the only exception the
\* walk can raise is the IndexError of an exhausted palette or of a frame
\* without rows, never a missing family or a panel out of range.
C12_LookupsInRange ==
    /\ Walking =>
          /\ number_of_plots = Len(fig.ax)
          /\ number_of_plots >= 2
          /\ \A f \in Families :
                Names(cols, ci, f) =>
                    /\ InList(f, plot_names)
                    /\ PanelOf(f) \in 0..(number_of_plots - 1)
    /\ pc = "pd_except" =>
          /\ exc = "IndexError"
          /\ \/ Len(rows) = 0
             \/ fig.h_i >= Len(hot_colors)
             \/ fig.c_i >= Len(cold_colors)

\* C12 witness: the walk is at a Pressure column whose panel is the last
\* of three axes.
C12_Witness ==
    /\ Walking
    /\ Names(cols, ci, "Pressure")
    /\ number_of_plots = 3
    /\ PanelOf("Pressure") = number_of_plots - 1

====
